---------------------------- MODULE Spec2Model ----------------------------
(***************************************************************************)
(* Model of the custom dataset of pytorch_geometric_introduction.ipynb:    *)
(* class MyDataset(InMemoryDataset) with __init__, download and process.   *)
(*                                                                         *)
(* Two specifications share the module.                                    *)
(*   Spec     the storage under the root (raw copy of the table, cache     *)
(*            file) and the constructions of MyDataset on it, one row of   *)
(*            the table per step of process().                             *)
(*   SpecMol  the row loop of process() statement by statement, over the   *)
(*            tables of parseable rows and over a row whose molecule is    *)
(*            drawn from all small molecular graphs.                       *)
(*                                                                         *)
(* Atom indices are 0-based as in the source; sequences are 1-based, so    *)
(* atom i is atoms[i + 1].  An optional value (a file that may be absent,  *)
(* Python's None) is a sequence of length 0 or 1.                          *)
(***************************************************************************)
EXTENDS Integers, Sequences, FiniteSets, TLC

VARIABLES
    csv,              \* 'data.csv' in the working directory: the table
    rawFile,          \* <root>/raw/data.csv, optional
    procFile,         \* <root>/processed/processed_data.pt, optional
    pc,               \* position of the running construction
    create_edge_attr, \* self.create_edge_attr of the running construction
    df,               \* process(): the table read from the raw file
    idx,              \* process(): index of the next row of df
    data_list,        \* process(): the records built so far
    self_data,        \* (self.data, self.slices) after the load, optional
    calls,            \* per construction: how often each step has run
    atStart,          \* storage as the running construction found it
    prev,             \* the last completed construction, optional
    nConstruct,       \* constructions started
    nEnv,             \* changes made to the files from outside
    mol,              \* SpecMol: the parsed molecule
    mpc,              \* SpecMol: position in the body of the row loop
    x,                \* SpecMol: node-feature table with its written mask
    edges             \* SpecMol: <<edge_index, edge_attr>>, optional

vars == <<csv, rawFile, procFile, pc, create_edge_attr, df, idx, data_list,
          self_data, calls, atStart, prev, nConstruct, nEnv,
          mol, mpc, x, edges>>

dsVars == <<csv, rawFile, procFile, pc, create_edge_attr, df, idx, data_list,
            self_data, calls, atStart, prev, nConstruct, nEnv>>

molVars == <<mol, mpc, x, edges>>

-----------------------------------------------------------------------------
(* Bounds of the model.                                                    *)

MaxRows == 2          \* rows of a table
MaxConstruct == 3     \* constructions of MyDataset in one behaviour
MaxEnv == 2           \* outside changes to the files in one behaviour
MaxAtoms == 3         \* atoms of a generated molecule (SpecMol)
MaxBonds == 2         \* bonds of a generated molecule (SpecMol)

-----------------------------------------------------------------------------
(* Small helpers.                                                          *)

None == <<>>
Some(v) == <<v>>
IsNone(o) == Len(o) = 0
Val(o) == o[1]

SeqsUpTo(S, lo, hi) == UNION {[1..n -> S] : n \in lo..hi}

RECURSIVE Concat(_)
Concat(ss) == IF Len(ss) = 0 THEN <<>> ELSE Head(ss) \o Concat(Tail(ss))

-----------------------------------------------------------------------------
(* The chemistry toolkit as the notebook uses it.                          *)

\* rdkit.Chem.rdchem.HybridizationType, the value int() gives.
HYB_SP == 2
HYB_SP2 == 3
HYB_SP3 == 4

\* Bond.GetBondTypeAsDouble(), doubled to stay in the integers.
SINGLE2 == 2
AROMATIC2 == 3
DOUBLE2 == 4
TRIPLE2 == 6

Atom(num, charge, hyb, arom) ==
    [num |-> num, charge |-> charge, hyb |-> hyb, arom |-> arom]

Bond(b, e, t2) == [begin |-> b, end |-> e, type2 |-> t2]

Molecule(atoms, bonds) == [atoms |-> atoms, bonds |-> bonds]

\* The structure strings of the model and what Chem.MolFromSmiles returns for
\* each: a molecule, or None for a string it cannot parse.
BadSmiles == "C1CC"

SmilesSet == {"CCO", "O", "C#N", "[OH-]", "c1ccccc1", BadSmiles}

MolFromSmiles(s) ==
    CASE s = "CCO" ->
           Some(Molecule(<<Atom(6, 0, HYB_SP3, FALSE), Atom(6, 0, HYB_SP3, FALSE),
                           Atom(8, 0, HYB_SP3, FALSE)>>,
                         <<Bond(0, 1, SINGLE2), Bond(1, 2, SINGLE2)>>))
      [] s = "O" ->
           Some(Molecule(<<Atom(8, 0, HYB_SP3, FALSE)>>, <<>>))
      [] s = "C#N" ->
           Some(Molecule(<<Atom(6, 0, HYB_SP, FALSE), Atom(7, 0, HYB_SP, FALSE)>>,
                         <<Bond(0, 1, TRIPLE2)>>))
      [] s = "[OH-]" ->
           Some(Molecule(<<Atom(8, -1, HYB_SP3, FALSE)>>, <<>>))
      [] s = "c1ccccc1" ->
           Some(Molecule([i \in 1..6 |-> Atom(6, 0, HYB_SP2, TRUE)],
                         <<Bond(0, 1, AROMATIC2), Bond(1, 2, AROMATIC2),
                           Bond(2, 3, AROMATIC2), Bond(3, 4, AROMATIC2),
                           Bond(4, 5, AROMATIC2), Bond(5, 0, AROMATIC2)>>))
      [] OTHER -> None

GetNumAtoms(m) == Len(m.atoms)

GetAtomicNum(m, i) == m.atoms[i + 1].num

\* The number of bonds the atom takes part in.
GetDegree(m, i) ==
    Cardinality({k \in 1..Len(m.bonds) :
                    m.bonds[k].begin = i \/ m.bonds[k].end = i})

GetFormalCharge(m, i) == m.atoms[i + 1].charge

GetHybridization(m, i) == m.atoms[i + 1].hyb

GetIsAromatic(m, i) == m.atoms[i + 1].arom

BondIsAromatic(b) == b.type2 = AROMATIC2

\* int(bond.GetBondTypeAsDouble()): truncation toward zero.
IntOfBondType(b) == b.type2 \div 2

\* Chem.rdmolops.GetAdjacencyMatrix(mol): N x N, entry 1 where a bond joins.
GetAdjacencyMatrix(m) ==
    [i \in 1..GetNumAtoms(m) |->
        [j \in 1..GetNumAtoms(m) |->
            IF \E k \in 1..Len(m.bonds) :
                  \/ (m.bonds[k].begin = i - 1 /\ m.bonds[k].end = j - 1)
                  \/ (m.bonds[k].begin = j - 1 /\ m.bonds[k].end = i - 1)
            THEN 1 ELSE 0]]

-----------------------------------------------------------------------------
(* process(): the node-feature table.                                      *)

\* What torch.empty may hold: the cells are not initialised.
Garbage == {0, -7}

\* A tensor cell assigned a Python bool holds 1 or 0.
BoolToLong(b) == IF b THEN 1 ELSE 0

\* x = torch.empty([n, 5], dtype=torch.long): n rows of 5 unwritten cells
\* holding g.  set is the mask of the cells written since.
Empty(n, g) ==
    [val |-> [i \in 1..n |-> [c \in 1..5 |-> g]],
     set |-> [i \in 1..n |-> [c \in 1..5 |-> FALSE]]]

\* The five assignments x[i][0..4] of the body of the atom loop.
AtomRow(m, i) ==
    <<GetAtomicNum(m, i), GetDegree(m, i), GetFormalCharge(m, i),
      GetHybridization(m, i), BoolToLong(GetIsAromatic(m, i))>>

SetRow(t, i, row) ==
    [val |-> [t.val EXCEPT ![i + 1] = row],
     set |-> [t.set EXCEPT ![i + 1] = [c \in 1..5 |-> TRUE]]]

RECURSIVE AtomLoop_SkipLast(_, _, _)
AtomLoop_SkipLast(m, t, i) ==
    IF i >= GetNumAtoms(m) - 1 THEN t
    ELSE AtomLoop_SkipLast(m, SetRow(t, i, AtomRow(m, i)), i + 1)

\* for i, atom in enumerate(mol.GetAtoms()), from atom i on.
RECURSIVE AtomLoop(_, _, _)
AtomLoop(m, t, i) ==
    IF i >= GetNumAtoms(m) THEN t
    ELSE AtomLoop(m, SetRow(t, i, AtomRow(m, i)), i + 1)

NodeFeatures(m, g) == AtomLoop(m, Empty(GetNumAtoms(m), g), 0)

-----------------------------------------------------------------------------
(* process(): the edges with edge features.                                *)

\* attr = 4 if bond.GetIsAromatic() else int(bond.GetBondTypeAsDouble())
AROMATIC_CODE == 4

BondAttr_NoAromaticTest(b) == IntOfBondType(b)

BondAttr(b) == IF BondIsAromatic(b) THEN AROMATIC_CODE ELSE IntOfBondType(b)

\* The body of the bond loop: both directions, the same attr for each.
BondBody(acc, b) ==
    [edge_indices |-> acc.edge_indices \o <<<<b.begin, b.end>>, <<b.end, b.begin>>>>,
     edge_attrs   |-> acc.edge_attrs \o <<BondAttr(b), BondAttr(b)>>]

RECURSIVE BondLoop(_, _)
BondLoop(bonds, acc) ==
    IF Len(bonds) = 0 THEN acc
    ELSE BondLoop(Tail(bonds), BondBody(acc, Head(bonds)))

EdgeIndexTensor_NoView(edge_indices) ==
    IF Len(edge_indices) = 0 THEN <<>>
    ELSE <<[k \in 1..Len(edge_indices) |-> edge_indices[k][1]],
           [k \in 1..Len(edge_indices) |-> edge_indices[k][2]]>>

\* torch.tensor(edge_indices).t().to(torch.long).view(2, -1): row 0 holds the
\* sources and row 1 the destinations; an empty list gives shape [2, 0].
EdgeIndexTensor(edge_indices) ==
    <<[k \in 1..Len(edge_indices) |-> edge_indices[k][1]],
      [k \in 1..Len(edge_indices) |-> edge_indices[k][2]]>>

\* torch.tensor(edge_attrs, dtype=torch.long).unsqueeze(1): shape [E, 1].
EdgeAttrTensor(edge_attrs) == [k \in 1..Len(edge_attrs) |-> <<edge_attrs[k]>>]

\* edge_index.numel(): the number of cells.
Numel(edge_index) == Len(Concat(edge_index))

SortKeys_Unscaled(edge_index, n) ==
    [k \in 1..Len(edge_index[1]) |-> edge_index[1][k] + edge_index[2][k]]

\* (edge_index[0] * x.size(0) + edge_index[1])
SortKeys(edge_index, n) ==
    [k \in 1..Len(edge_index[1]) |-> edge_index[1][k] * n + edge_index[2][k]]

Argsort_Descending(keys) ==
    [p \in 1..Len(keys) |->
        CHOOSE j \in 1..Len(keys) :
            Cardinality({i \in 1..Len(keys) :
                            \/ keys[i] > keys[j]
                            \/ (keys[i] = keys[j] /\ i < j)}) = p - 1]

\* keys.argsort(): position p of the result holds the index of the p-th
\* smallest key.  Equal keys (which the two directions of distinct bonds
\* never give) are taken in index order.
Argsort(keys) ==
    [p \in 1..Len(keys) |->
        CHOOSE j \in 1..Len(keys) :
            Cardinality({i \in 1..Len(keys) :
                            \/ keys[i] < keys[j]
                            \/ (keys[i] = keys[j] /\ i < j)}) = p - 1]

\* t[perm] along the dimension of the entries.
Take(t, perm) == [p \in 1..Len(perm) |-> t[perm[p]]]

SortEdges_Unsorted(edge_index, edge_attr, n) == <<edge_index, edge_attr>>

SortEdges_IndexOnly(edge_index, edge_attr, n) ==
    IF Numel(edge_index) > 0
    THEN LET perm == Argsort(SortKeys(edge_index, n))
         IN  <<<<Take(edge_index[1], perm), Take(edge_index[2], perm)>>, edge_attr>>
    ELSE <<edge_index, edge_attr>>

\* if edge_index.numel() > 0: sort both by the same permutation.
SortEdges(edge_index, edge_attr, n) ==
    IF Numel(edge_index) > 0
    THEN LET perm == Argsort(SortKeys(edge_index, n))
         IN  <<<<Take(edge_index[1], perm), Take(edge_index[2], perm)>>,
               Take(edge_attr, perm)>>
    ELSE <<edge_index, edge_attr>>

\* The branch "if self.create_edge_attr": <<edge_index, edge_attr>>.
EdgesWithAttr(m) ==
    LET acc == BondLoop(m.bonds, [edge_indices |-> <<>>, edge_attrs |-> <<>>])
    IN  SortEdges(EdgeIndexTensor(acc.edge_indices),
                  EdgeAttrTensor(acc.edge_attrs), GetNumAtoms(m))

-----------------------------------------------------------------------------
(* process(): the edges without edge features.                             *)

\* The non-zero entries of row i of adj from column j on, in column order.
RECURSIVE NonzeroRow(_, _, _)
NonzeroRow(adj, i, j) ==
    IF j > Len(adj) THEN <<>>
    ELSE (IF adj[i][j] # 0 THEN <<<<i - 1, j - 1>>>> ELSE <<>>)
         \o NonzeroRow(adj, i, j + 1)

RECURSIVE Nonzero(_, _)
Nonzero(adj, i) ==
    IF i > Len(adj) THEN <<>>
    ELSE NonzeroRow(adj, i, 1) \o Nonzero(adj, i + 1)

\* torch_geometric.utils.dense_to_sparse(adj)[0]: the index pairs of the
\* non-zero entries in row-major order, as a [2, E] tensor.
DenseToSparse(adj) == EdgeIndexTensor(Nonzero(adj, 1))

EdgesFromAdjacency(m) == DenseToSparse(GetAdjacencyMatrix(m))

-----------------------------------------------------------------------------
(* process(): the record of one row.                                       *)

LabelTensor_Flipped(label) == <<<<1 - label>>>>

\* label = torch.tensor([[label]], dtype=torch.long): shape [1, 1].
LabelTensor(label) == <<<<label>>>>

\* Data(x=, edge_index=, y=, smiles=), then the optional edge_attr.
Data(xval, edge_index, y, smiles, edge_attr) ==
    [x |-> xval, edge_index |-> edge_index, y |-> y, smiles |-> smiles,
     edge_attr |-> edge_attr]

MolRecord_NoAttr(m, smiles, label, flag, g) ==
    LET e == IF flag THEN EdgesWithAttr(m) ELSE <<EdgesFromAdjacency(m), <<>>>>
    IN  Data(NodeFeatures(m, g).val, e[1], LabelTensor(label), smiles, None)

\* The record of a parsed molecule.
MolRecord(m, smiles, label, flag, g) ==
    LET e == IF flag THEN EdgesWithAttr(m) ELSE <<EdgesFromAdjacency(m), <<>>>>
    IN  Data(NodeFeatures(m, g).val, e[1], LabelTensor(label), smiles,
             IF flag THEN Some(e[2]) ELSE None)

\* The body of the row loop: the record of the row, or None when
\* MolFromSmiles returned None and mol.GetNumAtoms() raised.
RowRecord(row, flag, g) ==
    LET m == MolFromSmiles(row.smiles)
    IN  IF IsNone(m) THEN None
        ELSE Some(MolRecord(Val(m), row.smiles, row.labels, flag, g))

-----------------------------------------------------------------------------
(* collate, and reading a record back from the loaded collection.          *)

\* The boundaries of the records in a concatenation: 0, l1, l1 + l2, ...
RECURSIVE Offsets(_, _)
Offsets(lens, from) ==
    IF Len(lens) = 0 THEN <<from>>
    ELSE <<from>> \o Offsets(Tail(lens), from + Head(lens))

Map(s, F(_)) == [k \in 1..Len(s) |-> F(s[k])]

\* self.collate(data_list): every field of the records concatenated, and
\* the boundaries of the records in each.  The fields are those of the
\* first record.
Collate(dl) ==
    LET xs == [k \in 1..Len(dl) |-> dl[k].x]
        e0 == [k \in 1..Len(dl) |-> dl[k].edge_index[1]]
        e1 == [k \in 1..Len(dl) |-> dl[k].edge_index[2]]
        ys == [k \in 1..Len(dl) |-> dl[k].y]
        hasAttr == ~IsNone(dl[1].edge_attr)
        as == [k \in 1..Len(dl) |-> Val(dl[k].edge_attr)]
        esl == Offsets([k \in 1..Len(dl) |-> Len(e0[k])], 0)
    IN  <<[x |-> Concat(xs),
           edge_index |-> <<Concat(e0), Concat(e1)>>,
           y |-> Concat(ys),
           smiles |-> [k \in 1..Len(dl) |-> dl[k].smiles],
           edge_attr |-> IF hasAttr THEN Some(Concat(as)) ELSE None],
          [x |-> Offsets([k \in 1..Len(dl) |-> Len(xs[k])], 0),
           edge_index |-> esl,
           y |-> Offsets([k \in 1..Len(dl) |-> Len(ys[k])], 0),
           smiles |-> [k \in 1..Len(dl) + 1 |-> k - 1],
           edge_attr |-> IF hasAttr THEN Some(esl) ELSE None]>>

\* len(dataset)
NumRecords(ds) == Len(ds[2].smiles) - 1

\* t[lo:hi], 0-based and half open.
Slice(t, lo, hi) == [k \in 1..(hi - lo) |-> t[lo + k]]

\* dataset[k]: every field cut at the boundaries of record k (0-based).
Get(ds, k) ==
    LET d == ds[1]
        s == ds[2]
    IN  Data(Slice(d.x, s.x[k + 1], s.x[k + 2]),
             <<Slice(d.edge_index[1], s.edge_index[k + 1], s.edge_index[k + 2]),
               Slice(d.edge_index[2], s.edge_index[k + 1], s.edge_index[k + 2])>>,
             Slice(d.y, s.y[k + 1], s.y[k + 2]),
             d.smiles[s.smiles[k + 1] + 1],
             IF IsNone(d.edge_attr) THEN None
             ELSE Some(Slice(Val(d.edge_attr), Val(s.edge_attr)[k + 1],
                             Val(s.edge_attr)[k + 2])))

\* The records of a loaded collection, in order.
Records(ds) == [k \in 1..NumRecords(ds) |-> Get(ds, k - 1)]

-----------------------------------------------------------------------------
(* The tables and the storage.                                             *)

Labels == {0, 1}

\* The structure strings the tables of the model hold.
TableSmiles == {"CCO", "O", BadSmiles}

Rows == [smiles : TableSmiles, labels : Labels]

\* pd.read_csv gives the rows the index 0, 1, ...; a table has a row.
Tables == SeqsUpTo(Rows, 1, MaxRows)

\* The tables an edit of 'data.csv' may leave.
EditTables == {t \in Tables : Len(t) = 1}

RawFound_Never == FALSE

\* raw_file_names: 'data.csv' is found in the raw directory, so that
\* download() is skipped.
RawFound == ~IsNone(rawFile)

ProcessedFound_Never == FALSE

\* processed_file_names: 'processed_data.pt' is found in the processed
\* directory, so that process() is skipped.
ProcessedFound == ~IsNone(procFile)

NoCalls == [download |-> 0, process |-> 0, read |-> 0, parse |-> 0,
            write |-> 0, load |-> 0]

Bump(c, f) == [c EXCEPT ![f] = @ + 1]

Ended == pc \in {"idle", "done", "failed"}

\* The values the variables of SpecMol keep under Spec.
MolIdle ==
    /\ mol = Molecule(<<>>, <<>>)
    /\ mpc = "off"
    /\ x = Empty(0, 0)
    /\ edges = None

Init ==
    /\ csv \in Tables
    /\ rawFile = None
    /\ procFile = None
    /\ pc = "idle"
    /\ create_edge_attr = FALSE
    /\ df = <<>>
    /\ idx = 0
    /\ data_list = <<>>
    /\ self_data = None
    /\ calls = NoCalls
    /\ atStart = [raw |-> None, proc |-> None]
    /\ prev = None
    /\ nConstruct = 0
    /\ nEnv = 0
    /\ MolIdle

-----------------------------------------------------------------------------
(* MyDataset(root, create_edge_attr): one construction, step by step.      *)

\* __init__ up to the call of super().__init__(root).  prev keeps the
\* construction that completed just before this one, if nothing happened
\* in between.
Construct(flag) ==
    /\ Ended
    /\ nConstruct < MaxConstruct
    /\ nConstruct' = nConstruct + 1
    /\ create_edge_attr' = flag
    /\ pc' = "raw"
    /\ calls' = NoCalls
    /\ atStart' = [raw |-> rawFile, proc |-> procFile]
    /\ prev' = IF pc = "done"
               THEN Some([data |-> self_data, calls |-> calls,
                          atStart |-> atStart, flag |-> create_edge_attr])
               ELSE None
    /\ self_data' = None
    /\ df' = <<>>
    /\ idx' = 0
    /\ data_list' = <<>>
    /\ UNCHANGED <<csv, rawFile, procFile, nEnv, molVars>>

\* The files of raw_file_names are found: download() is skipped.
SkipDownload ==
    /\ pc = "raw"
    /\ RawFound
    /\ pc' = "processed"
    /\ UNCHANGED <<csv, rawFile, procFile, create_edge_attr, df, idx, data_list,
                   self_data, calls, atStart, prev, nConstruct, nEnv, molVars>>

\* download(): shutil.copy('data.csv', self.raw_dir + '/data.csv').
download ==
    /\ pc = "raw"
    /\ ~RawFound
    /\ rawFile' = Some(csv)
    /\ calls' = Bump(calls, "download")
    /\ pc' = "processed"
    /\ UNCHANGED <<csv, procFile, create_edge_attr, df, idx, data_list,
                   self_data, atStart, prev, nConstruct, nEnv, molVars>>

SkipProcess_Reprocess ==
    /\ pc = "processed"
    /\ ProcessedFound
    /\ df' = Val(rawFile)
    /\ data_list' = [k \in 1..Len(Val(rawFile)) |-> None]
    /\ idx' = 0
    /\ calls' = Bump(Bump(calls, "process"), "read")
    /\ pc' = "rows"
    /\ UNCHANGED <<csv, rawFile, procFile, create_edge_attr, self_data,
                   atStart, prev, nConstruct, nEnv, molVars>>

\* The files of processed_file_names are found: process() is skipped.
SkipProcess ==
    /\ pc = "processed"
    /\ ProcessedFound
    /\ pc' = "load"
    /\ UNCHANGED <<csv, rawFile, procFile, create_edge_attr, df, idx, data_list,
                   self_data, calls, atStart, prev, nConstruct, nEnv, molVars>>

ProcessRead_FromCsv ==
    /\ pc = "processed"
    /\ ~ProcessedFound
    /\ df' = csv
    /\ data_list' = [k \in 1..Len(csv) |-> None]
    /\ idx' = 0
    /\ calls' = Bump(Bump(calls, "process"), "read")
    /\ pc' = "rows"
    /\ UNCHANGED <<csv, rawFile, procFile, create_edge_attr, self_data,
                   atStart, prev, nConstruct, nEnv, molVars>>

\* process(), its first two lines: read the raw file, allocate data_list.
ProcessRead ==
    /\ pc = "processed"
    /\ ~ProcessedFound
    /\ df' = Val(rawFile)
    /\ data_list' = [k \in 1..Len(Val(rawFile)) |-> None]
    /\ idx' = 0
    /\ calls' = Bump(Bump(calls, "process"), "read")
    /\ pc' = "rows"
    /\ UNCHANGED <<csv, rawFile, procFile, create_edge_attr, self_data,
                   atStart, prev, nConstruct, nEnv, molVars>>

ProcessRow_Incremental ==
    /\ pc = "rows"
    /\ idx < Len(df)
    /\ \E g \in Garbage :
          LET r == RowRecord(df[idx + 1], create_edge_attr, g)
          IN  IF IsNone(r)
              THEN /\ pc' = "failed"
                   /\ UNCHANGED <<data_list, idx, procFile>>
              ELSE /\ data_list' = [data_list EXCEPT ![idx + 1] = r]
                   /\ idx' = idx + 1
                   /\ pc' = "rows"
                   /\ procFile' = Some(Collate([k \in 1..(idx + 1) |->
                                                  Val(data_list'[k])]))
    /\ calls' = Bump(calls, "parse")
    /\ UNCHANGED <<csv, rawFile, create_edge_attr, df, self_data,
                   atStart, prev, nConstruct, nEnv, molVars>>

ProcessRow_SkipBad ==
    /\ pc = "rows"
    /\ idx < Len(df)
    /\ \E g \in Garbage :
          LET r == RowRecord(df[idx + 1], create_edge_attr, g)
              e == MolRecord(Molecule(<<>>, <<>>), df[idx + 1].smiles,
                             df[idx + 1].labels, create_edge_attr, g)
          IN  /\ data_list' = [data_list EXCEPT
                                  ![idx + 1] = IF IsNone(r) THEN Some(e) ELSE r]
              /\ idx' = idx + 1
              /\ pc' = "rows"
    /\ calls' = Bump(calls, "parse")
    /\ UNCHANGED <<csv, rawFile, procFile, create_edge_attr, df, self_data,
                   atStart, prev, nConstruct, nEnv, molVars>>

\* One turn of the row loop: data_list[idx] = the record of row idx, or the
\* exception of an unparsed structure string, which ends the construction.
ProcessRow ==
    /\ pc = "rows"
    /\ idx < Len(df)
    /\ \E g \in Garbage :
          LET r == RowRecord(df[idx + 1], create_edge_attr, g)
          IN  IF IsNone(r)
              THEN /\ pc' = "failed"
                   /\ UNCHANGED <<data_list, idx>>
              ELSE /\ data_list' = [data_list EXCEPT ![idx + 1] = r]
                   /\ idx' = idx + 1
                   /\ pc' = "rows"
    /\ calls' = Bump(calls, "parse")
    /\ UNCHANGED <<csv, rawFile, procFile, create_edge_attr, df, self_data,
                   atStart, prev, nConstruct, nEnv, molVars>>

\* After the loop: collate and torch.save to processed_paths[0].
ProcessSave ==
    /\ pc = "rows"
    /\ idx = Len(df)
    /\ procFile' = Some(Collate([k \in 1..Len(data_list) |-> Val(data_list[k])]))
    /\ calls' = Bump(calls, "write")
    /\ pc' = "load"
    /\ UNCHANGED <<csv, rawFile, create_edge_attr, df, idx, data_list, self_data,
                   atStart, prev, nConstruct, nEnv, molVars>>

\* self.data, self.slices = torch.load(self.processed_paths[0])
Load ==
    /\ pc = "load"
    /\ self_data' = procFile
    /\ calls' = Bump(calls, "load")
    /\ pc' = "done"
    /\ UNCHANGED <<csv, rawFile, procFile, create_edge_attr, df, idx, data_list,
                   atStart, prev, nConstruct, nEnv, molVars>>

-----------------------------------------------------------------------------
(* What is done to the files between constructions.                        *)

\* "you will have to manually delete the processed files"
DeleteProcessed ==
    /\ Ended
    /\ nEnv < MaxEnv
    /\ ~IsNone(procFile)
    /\ procFile' = None
    /\ nEnv' = nEnv + 1
    /\ pc' = "idle"
    /\ UNCHANGED <<csv, rawFile, create_edge_attr, df, idx, data_list, self_data,
                   calls, atStart, prev, nConstruct, molVars>>

\* 'data.csv' is given other rows.
EditCsv ==
    /\ Ended
    /\ nEnv < MaxEnv
    /\ \E t \in EditTables : t # csv /\ csv' = t
    /\ nEnv' = nEnv + 1
    /\ pc' = "idle"
    /\ UNCHANGED <<rawFile, procFile, create_edge_attr, df, idx, data_list,
                   self_data, calls, atStart, prev, nConstruct, molVars>>

Next ==
    \/ \E flag \in BOOLEAN : Construct(flag)
    \/ SkipDownload
    \/ download
    \/ SkipProcess
    \/ ProcessRead
    \/ ProcessRow
    \/ ProcessSave
    \/ Load
    \/ DeleteProcessed
    \/ EditCsv

Spec == Init /\ [][Next]_vars

-----------------------------------------------------------------------------
(* SpecMol: the body of the row loop on one molecule.                      *)

BondTypes == {SINGLE2, AROMATIC2, DOUBLE2, TRIPLE2}

\* The atoms of a generated molecule: atom i has the properties of its
\* position, so that rows written out of place differ.
GenAtomKinds ==
    <<Atom(6, 0, HYB_SP3, FALSE), Atom(8, -1, HYB_SP2, FALSE),
      Atom(7, 1, HYB_SP2, TRUE)>>

GenAtoms(n) == [i \in 1..n |-> GenAtomKinds[((i - 1) % 3) + 1]]

GenSmiles == "*"

\* The tables of rows whose structure strings parse.
ParsedTables ==
    SeqsUpTo({q \in [smiles : SmilesSet, labels : Labels] :
                 ~IsNone(MolFromSmiles(q.smiles))}, 1, MaxRows)

\* process() is in the row loop, at row 0, of either a table of
\* ParsedTables, the molecule of the row parsed, or a table of one row, of
\* whose molecule the parser has given the atoms and is still to give the
\* bonds.
InitMol ==
    /\ \/ /\ df \in ParsedTables
          /\ mol = Val(MolFromSmiles(df[1].smiles))
          /\ mpc = "parsed"
       \/ \E n \in 0..MaxAtoms :
             /\ mol = Molecule(GenAtoms(n), <<>>)
             /\ df = <<[smiles |-> GenSmiles, labels |-> 1]>>
             /\ mpc = "parsing"
    /\ create_edge_attr \in BOOLEAN
    /\ x = Empty(0, 0)
    /\ edges = None
    /\ idx = 0
    /\ data_list = [k \in 1..Len(df) |-> None]
    /\ csv = df
    /\ rawFile = Some(df)
    /\ procFile = None
    /\ pc = "rows"
    /\ self_data = None
    /\ calls = NoCalls
    /\ atStart = [raw |-> Some(df), proc |-> None]
    /\ prev = None
    /\ nConstruct = 1
    /\ nEnv = 0

\* Chem.MolFromSmiles gives the molecule one more bond.  A molecule has at
\* most one bond between two atoms; the bonds come in any order and with
\* either atom of a bond as its begin atom.
MolParseBond ==
    /\ mpc = "parsing"
    /\ Len(mol.bonds) < MaxBonds
    /\ \E b, e \in 0..(GetNumAtoms(mol) - 1), t \in BondTypes :
          /\ b # e
          /\ \A k \in 1..Len(mol.bonds) :
                {mol.bonds[k].begin, mol.bonds[k].end} # {b, e}
          /\ mol' = Molecule(mol.atoms, Append(mol.bonds, Bond(b, e, t)))
    /\ UNCHANGED <<mpc, x, edges, dsVars>>

\* Chem.MolFromSmiles returns.
MolParsed ==
    /\ mpc = "parsing"
    /\ mpc' = "parsed"
    /\ UNCHANGED <<mol, x, edges, dsVars>>

\* x = torch.empty(...) and the atom loop.
MolNodes ==
    /\ mpc = "parsed"
    /\ \E g \in Garbage : x' = NodeFeatures(mol, g)
    /\ mpc' = "nodes"
    /\ UNCHANGED <<mol, edges, dsVars>>

\* The branch of self.create_edge_attr: the bond loop and the sort.
MolEdgesAttr ==
    /\ mpc = "nodes"
    /\ create_edge_attr
    /\ edges' = Some(EdgesWithAttr(mol))
    /\ mpc' = "edges"
    /\ UNCHANGED <<mol, x, dsVars>>

\* The other branch: the adjacency matrix made sparse.
MolEdgesAdj ==
    /\ mpc = "nodes"
    /\ ~create_edge_attr
    /\ edges' = Some(<<EdgesFromAdjacency(mol), <<>>>>)
    /\ mpc' = "edges"
    /\ UNCHANGED <<mol, x, dsVars>>

\* The label tensor and data_list[idx] = Data(...), with its edge_attr.
MolAssemble ==
    /\ mpc = "edges"
    /\ data_list' = [data_list EXCEPT ![idx + 1] =
                        Some(Data(x.val, Val(edges)[1], LabelTensor(df[idx + 1].labels),
                                  df[idx + 1].smiles,
                                  IF create_edge_attr THEN Some(Val(edges)[2])
                                  ELSE None))]
    /\ mpc' = "assembled"
    /\ UNCHANGED <<csv, rawFile, procFile, pc, create_edge_attr, df, idx,
                   self_data, calls, atStart, prev, nConstruct, nEnv,
                   mol, x, edges>>

\* The row loop turns to the next row and parses its structure string.
MolNextRow ==
    /\ mpc = "assembled"
    /\ idx + 1 < Len(df)
    /\ idx' = idx + 1
    /\ mol' = Val(MolFromSmiles(df[idx + 2].smiles))
    /\ mpc' = "parsed"
    /\ UNCHANGED <<csv, rawFile, procFile, pc, create_edge_attr, df, data_list,
                   self_data, calls, atStart, prev, nConstruct, nEnv, x, edges>>

\* The last row is done: collate, torch.save, and the torch.load of __init__.
MolSave ==
    /\ mpc = "assembled"
    /\ idx + 1 = Len(df)
    /\ procFile' = Some(Collate([k \in 1..Len(data_list) |-> Val(data_list[k])]))
    /\ self_data' = procFile'
    /\ pc' = "done"
    /\ mpc' = "saved"
    /\ UNCHANGED <<csv, rawFile, create_edge_attr, df, idx, data_list,
                   calls, atStart, prev, nConstruct, nEnv, mol, x, edges>>

NextMol ==
    \/ MolParseBond
    \/ MolParsed
    \/ MolNodes
    \/ MolEdgesAttr
    \/ MolEdgesAdj
    \/ MolAssemble
    \/ MolNextRow
    \/ MolSave

SpecMol == InitMol /\ [][NextMol]_vars

-----------------------------------------------------------------------------
(* The claims.                                                             *)

\* A construction is running or has just ended, so that calls and atStart
\* are those of this construction.
InConstruction == pc \in {"raw", "processed", "rows", "load", "done", "failed"}

\* The structure strings and labels of the rows of a table.
SmilesOf(t) == [k \in 1..Len(t) |-> t[k].smiles]

\* C1: a construction that finds the cache file never enters process(): it
\* does not read the table, parses no structure string and does not write
\* the cache file, which stays what it was; the construction cannot fail in
\* the row loop, and what it returns is the stored collection, whatever
\* 'data.csv' holds by then.
C1_CacheTrusted ==
    (InConstruction /\ ~IsNone(atStart.proc)) =>
        /\ calls.process = 0
        /\ calls.read = 0
        /\ calls.parse = 0
        /\ calls.write = 0
        /\ procFile = atStart.proc
        /\ pc \notin {"rows", "failed"}
        /\ (pc = "done" => self_data = atStart.proc)

\* A construction returned a stored collection that no longer matches the
\* rows of 'data.csv'.
C1_Witness ==
    /\ pc = "done"
    /\ ~IsNone(atStart.proc)
    /\ self_data = atStart.proc
    /\ Val(self_data)[1].smiles # SmilesOf(csv)

\* C2, as stated: of two constructions in succession, both return the same
\* collection, the second neither parses nor runs process(), and the cache
\* file is written exactly once over the two.
C2_Original ==
    (pc = "done" /\ ~IsNone(prev)) =>
        /\ self_data = Val(prev).data
        /\ calls.parse = 0
        /\ calls.process = 0
        /\ Val(prev).calls.write + calls.write = 1

\* C2, amended: of two constructions in succession, both return the same
\* collection (the same records in the same order), the second neither
\* parses nor runs process() nor writes, and over the two the cache file is
\* written once if the first found no cache file and not at all if it found
\* one.
C2_Idempotent ==
    (pc = "done" /\ ~IsNone(prev)) =>
        /\ self_data = Val(prev).data
        /\ Records(Val(self_data)) = Records(Val(Val(prev).data))
        /\ calls.parse = 0
        /\ calls.process = 0
        /\ calls.write = 0
        /\ Val(prev).calls.write + calls.write =
              IF IsNone(Val(prev).atStart.proc) THEN 1 ELSE 0
        /\ Val(prev).calls.parse =
              IF IsNone(Val(prev).atStart.proc)
              THEN NumRecords(Val(self_data)) ELSE 0

\* The second of two constructions in succession has returned, the first
\* having built the cache file, and its flag differs from the first's.
C2_Witness ==
    /\ pc = "done"
    /\ ~IsNone(prev)
    /\ Val(prev).calls.write = 1
    /\ Val(prev).flag # create_edge_attr
    /\ NumRecords(Val(self_data)) = 2

\* C3, as stated: a construction that fails in the row loop leaves the
\* storage under the root as it found it.
C3_Original ==
    pc = "failed" => (rawFile = atStart.raw /\ procFile = atStart.proc)

\* C3, amended: a construction that fails in the row loop, at whichever
\* row, writes no cache file and returns nothing: the cache file is absent
\* as before, and the only file written under the root is the raw copy of
\* the table, if download() ran because it was missing.
C3_NoCacheOnFailure ==
    pc = "failed" =>
        /\ procFile = atStart.proc
        /\ IsNone(procFile)
        /\ calls.write = 0
        /\ calls.load = 0
        /\ self_data = None
        /\ \/ rawFile = atStart.raw
           \/ /\ IsNone(atStart.raw)
              /\ calls.download = 1
              /\ rawFile = Some(csv)

\* A construction failed at the second row, after download() and after the
\* record of the first row was built.
C3_Witness ==
    /\ pc = "failed"
    /\ idx = 1
    /\ ~IsNone(data_list[1])
    /\ calls.download = 1

\* C4: a construction that finds no cache file and returns has read the R
\* rows of the raw copy of the table and returns R records, record k being
\* the record of row k (its structure string, its label, its molecule); the
\* cache file was written, once, and holds the collection returned.
C4_OneRecordPerRow ==
    /\ (pc \in {"load", "done"} /\ IsNone(atStart.proc)) =>
          /\ calls.write = 1
          /\ ~IsNone(procFile)
          /\ df = Val(rawFile)
    /\ (pc = "done" /\ IsNone(atStart.proc)) =>
          /\ self_data = procFile
          /\ NumRecords(Val(self_data)) = Len(df)
          /\ \A k \in 1..Len(df) :
                /\ Get(Val(self_data), k - 1).smiles = df[k].smiles
                /\ Get(Val(self_data), k - 1).y = <<<<df[k].labels>>>>
                /\ \E g \in Garbage :
                      Some(Get(Val(self_data), k - 1))
                          = RowRecord(df[k], create_edge_attr, g)

\* A construction built and returned a collection of two different rows.
C4_Witness ==
    /\ pc = "done"
    /\ IsNone(atStart.proc)
    /\ Len(df) = 2
    /\ df[1] # df[2]
    /\ NumRecords(Val(self_data)) = 2

\* The code of a bond by its kind: single 1, double 2, triple 3, aromatic 4.
CodeOfType(t2) ==
    CASE t2 = SINGLE2 -> 1
      [] t2 = DOUBLE2 -> 2
      [] t2 = TRIPLE2 -> 3
      [] t2 = AROMATIC2 -> 4

\* The positions of the directed pair (u, v) in an edge_index.
Positions(ei, u, v) == {p \in 1..Len(ei[1]) : ei[1][p] = u /\ ei[2][p] = v}

\* C5: once the atom loop has run, the node-feature table of a molecule of
\* N atoms (N = 0 and N = 1 included) has N rows of 5 cells; row i holds
\* the atomic number, the degree, the formal charge, the hybridization code
\* and the aromaticity flag (1 or 0) of atom i, in this order; no cell is
\* left unwritten, and the record is assembled from this table.
C5_NodeTable ==
    mpc \in {"nodes", "edges", "assembled", "saved"} =>
        /\ Len(x.val) = Len(mol.atoms)
        /\ Len(x.set) = Len(mol.atoms)
        /\ \A i \in 1..Len(mol.atoms) :
              /\ Len(x.val[i]) = 5
              /\ x.val[i][1] = mol.atoms[i].num
              /\ x.val[i][2] = Cardinality({k \in 1..Len(mol.bonds) :
                                    (i - 1) \in {mol.bonds[k].begin, mol.bonds[k].end}})
              /\ x.val[i][3] = mol.atoms[i].charge
              /\ x.val[i][4] = mol.atoms[i].hyb
              /\ x.val[i][5] = (IF mol.atoms[i].arom THEN 1 ELSE 0)
              /\ \A c \in 1..5 : x.set[i][c]
        /\ (mpc \in {"assembled", "saved"} => Val(data_list[idx + 1]).x = x.val)

\* The record of a molecule of three atoms with a middle atom of degree 2
\* is assembled.
C5_Witness ==
    /\ mpc = "assembled"
    /\ Len(mol.atoms) = 3
    /\ Len(mol.bonds) = 2
    /\ x.val[2][2] = 2
    /\ x.val[3][5] = 1

\* C6: in edge-feature mode the emitted edge list of a molecule of B bonds
\* has 2B entries and as many features; each bond between u and v has
\* exactly one entry (u, v) and exactly one entry (v, u), and the features
\* at these two positions both are the code of that bond.
C6_BothDirections ==
    (mpc \in {"edges", "assembled", "saved"} /\ create_edge_attr) =>
        LET ei == Val(edges)[1]
            ea == Val(edges)[2]
        IN  /\ Len(ei) = 2
            /\ Len(ei[1]) = 2 * Len(mol.bonds)
            /\ Len(ei[2]) = 2 * Len(mol.bonds)
            /\ Len(ea) = 2 * Len(mol.bonds)
            /\ \A k \in 1..Len(mol.bonds) :
                  LET b == mol.bonds[k]
                      fw == Positions(ei, b.begin, b.end)
                      bw == Positions(ei, b.end, b.begin)
                  IN  /\ Cardinality(fw) = 1
                      /\ Cardinality(bw) = 1
                      /\ \A p \in fw \cup bw : ea[p] = <<CodeOfType(b.type2)>>

\* Two bonds of different codes were emitted, in an order the sort changed.
C6_Witness ==
    /\ mpc = "edges"
    /\ create_edge_attr
    /\ Len(mol.bonds) = 2
    /\ mol.bonds[1].type2 # mol.bonds[2].type2
    /\ Val(edges)[1][1] # <<mol.bonds[1].begin, mol.bonds[1].end,
                            mol.bonds[2].begin, mol.bonds[2].end>>
    /\ Val(edges)[1][1][1] # mol.bonds[1].begin

\* C7: in edge-feature mode the key source * node_count + destination does
\* not decrease along the emitted edge list, and sorting the emitted edges
\* and features by it again changes neither.
C7_SortedByKey ==
    (mpc \in {"edges", "assembled", "saved"} /\ create_edge_attr) =>
        LET ei == Val(edges)[1]
            ea == Val(edges)[2]
            n == Len(mol.atoms)
        IN  /\ \A p \in 1..(Len(ei[1]) - 1) :
                  ei[1][p] * n + ei[2][p] <= ei[1][p + 1] * n + ei[2][p + 1]
            /\ SortEdges(ei, ea, n) = <<ei, ea>>

\* The emitted list of a molecule whose bonds came out of key order.
C7_Witness ==
    /\ mpc = "edges"
    /\ create_edge_attr
    /\ Len(mol.bonds) = 2
    /\ mol.bonds[1].begin > mol.bonds[1].end
    /\ mol.bonds[1].begin > mol.bonds[2].begin
    /\ Len(Val(edges)[1][1]) = 4

\* C8: a construction fails exactly at the first row whose structure string
\* does not parse: the rows before it were parsed and have their records, no
\* row after it is touched, nothing is written, loaded or returned; and a
\* construction that runs process() to its end has parsed every row.
C8_AbortAtBadRow ==
    /\ pc = "failed" =>
          /\ idx < Len(df)
          /\ IsNone(MolFromSmiles(df[idx + 1].smiles))
          /\ \A k \in 1..idx : ~IsNone(MolFromSmiles(df[k].smiles))
          /\ \A k \in 1..idx : ~IsNone(data_list[k])
          /\ \A k \in (idx + 1)..Len(df) : IsNone(data_list[k])
          /\ calls.parse = idx + 1
          /\ calls.write = 0
          /\ IsNone(procFile)
          /\ self_data = None
    /\ (pc \in {"rows", "load", "done"} /\ calls.process = 1) =>
          /\ \A k \in 1..idx : ~IsNone(MolFromSmiles(df[k].smiles))
          /\ calls.parse = idx
          /\ (pc # "rows" => idx = Len(df))

\* A construction failed at a bad first row with a good row after it.
C8_Witness ==
    /\ pc = "failed"
    /\ idx = 0
    /\ Len(df) = 2
    /\ ~IsNone(MolFromSmiles(df[2].smiles))

\* The table of the scenario of C9.
EthanolWater == <<[smiles |-> "CCO", labels |-> 1], [smiles |-> "O", labels |-> 0]>>

NoEdges == <<<<>>, <<>>>>

\* C9: the record of a molecule without bonds has no edges in either mode:
\* edge_index is [2, 0] and, in edge-feature mode, edge_attr has no rows
\* (the sort is skipped); and the collection built from the table
\* ("CCO", 1), ("O", 0) has 2 records, record 0 with a [3, 5] node-feature
\* table, record 1 with a [1, 5] one and no edges.
C9_NoBonds ==
    /\ (mpc \in {"edges", "assembled", "saved"} /\ mol.bonds = <<>>) =>
          /\ Val(edges)[1] = NoEdges
          /\ Val(edges)[2] = <<>>
          /\ mpc # "edges" =>
                /\ Val(data_list[idx + 1]).edge_index = NoEdges
                /\ Val(data_list[idx + 1]).edge_attr =
                      (IF create_edge_attr THEN Some(<<>>) ELSE None)
    /\ (mpc = "saved" /\ df = EthanolWater) =>
          LET ds == Val(self_data)
          IN  /\ NumRecords(ds) = 2
              /\ Len(Get(ds, 0).x) = 3
              /\ \A i \in 1..3 : Len(Get(ds, 0).x[i]) = 5
              /\ Len(Get(ds, 1).x) = 1
              /\ Len(Get(ds, 1).x[1]) = 5
              /\ Get(ds, 1).edge_index = NoEdges
              /\ Get(ds, 1).edge_attr =
                    (IF create_edge_attr THEN Some(<<>>) ELSE None)
              /\ Len(Get(ds, 0).edge_index[1]) = 4

\* The collection of the scenario was built in edge-feature mode.
C9_Witness ==
    /\ mpc = "saved"
    /\ df = EthanolWater
    /\ create_edge_attr
    /\ mol.bonds = <<>>
    /\ Get(Val(self_data), 1).edge_attr = Some(<<>>)

\* C10: the label read back from record k of a collection that a
\* construction built, stored and loaded is the label of row k, 0 or 1,
\* in either mode; every collection loaded holds one label of 0 or 1 per
\* record.
C10_LabelRoundTrip ==
    pc = "done" =>
        /\ \A k \in 1..NumRecords(Val(self_data)) :
              /\ Len(Get(Val(self_data), k - 1).y) = 1
              /\ Len(Get(Val(self_data), k - 1).y[1]) = 1
              /\ Get(Val(self_data), k - 1).y[1][1] \in Labels
        /\ IsNone(atStart.proc) =>
              \A k \in 1..Len(df) :
                  Get(Val(self_data), k - 1).y[1][1] = df[k].labels

\* The labels 0 and 1 of two rows were read back from a collection that
\* the construction built.
C10_Witness ==
    /\ pc = "done"
    /\ IsNone(atStart.proc)
    /\ Len(df) = 2
    /\ Get(Val(self_data), 0).y[1][1] = 0
    /\ Get(Val(self_data), 1).y[1][1] = 1

\* Record k (0-based) of a collection carries an edge-feature table.
HasEdgeAttr(ds, k) == ~IsNone(Get(ds, k).edge_attr)

\* C11, as stated: every record of the collection a construction returns
\* carries an edge-feature table if the flag of that construction is set,
\* and none does if it is unset.
C11_Original ==
    pc = "done" =>
        \A k \in 0..(NumRecords(Val(self_data)) - 1) :
            HasEdgeAttr(Val(self_data), k) <=> create_edge_attr

\* C11, amended: the flag selects the edge mode of the collection only in a
\* construction that runs process(): then every record carries an
\* edge-feature table if the flag is set and none does if it is unset.  A
\* construction that finds the cache file returns the records as stored,
\* with or without edge-feature tables, whatever its own flag; in either
\* case the records of one collection are all of one mode.
C11_FlagOfBuilder ==
    pc = "done" =>
        LET ds == Val(self_data)
        IN  /\ calls.process = 1 =>
                  \A k \in 0..(NumRecords(ds) - 1) :
                      HasEdgeAttr(ds, k) <=> create_edge_attr
            /\ calls.process = 0 =>
                  /\ NumRecords(ds) = NumRecords(Val(atStart.proc))
                  /\ \A k \in 0..(NumRecords(ds) - 1) :
                        HasEdgeAttr(ds, k) <=> HasEdgeAttr(Val(atStart.proc), k)
            /\ \A k \in 0..(NumRecords(ds) - 1) :
                  HasEdgeAttr(ds, k) <=> HasEdgeAttr(ds, 0)

\* A construction with the flag set has returned the two records that a
\* construction with the flag unset had stored.
C11_Witness ==
    /\ pc = "done"
    /\ create_edge_attr
    /\ calls.process = 0
    /\ ~IsNone(prev)
    /\ ~Val(prev).flag
    /\ Val(prev).calls.process = 1
    /\ NumRecords(Val(self_data)) = 2
    /\ ~HasEdgeAttr(Val(self_data), 1)

\* A bond written with its smaller atom index first.
Oriented(b) ==
    IF b.begin < b.end THEN b ELSE Bond(b.end, b.begin, b.type2)

\* The set of bonds of a molecule: no order, no begin atom.
BondSet(m) == {Oriented(m.bonds[k]) : k \in 1..Len(m.bonds)}

\* The molecule that has the bonds of m in one fixed order that depends on
\* the set of bonds only: by smaller atom index, then by larger.
Canonical(m) ==
    LET S      == BondSet(m)
        key(b) == b.begin * GetNumAtoms(m) + b.end
    IN  Molecule(m.atoms,
                 [p \in 1..Cardinality(S) |->
                     CHOOSE b \in S :
                         Cardinality({c \in S : key(c) < key(b)}) = p - 1])

\* C12: in edge-feature mode the emitted edge list and feature list are
\* those of the molecule's set of bonds: whatever the order in which the
\* bonds were iterated and whichever atom of a bond was its begin atom, the
\* lists equal the lists emitted for the one canonical order of the same
\* set, so any two iteration orders of the same bonds emit identical lists.
C12_OrderIndependent ==
    (mpc = "edges" /\ create_edge_attr) =>
        Val(edges) = EdgesWithAttr(Canonical(mol))

\* Two bonds of different type were iterated in descending order, the first
\* from its larger atom index, and the lists have been emitted.
C12_Witness ==
    /\ mpc = "edges"
    /\ create_edge_attr
    /\ Len(mol.bonds) = 2
    /\ mol.bonds[1].begin > mol.bonds[1].end
    /\ mol.bonds[2].begin < mol.bonds[1].end
    /\ mol.bonds[2].end < mol.bonds[1].begin
    /\ mol.bonds[1].type2 # mol.bonds[2].type2
    /\ mol.bonds # Canonical(mol).bonds
    /\ BondSet(mol) = BondSet(Canonical(mol))
    /\ Len(Val(edges)[2]) = 4

\* A bond order, held doubled, truncated to an integer.
Truncated(t2) == CHOOSE c \in 0..3 : 2 * c <= t2 /\ t2 < 2 * c + 2

\* The codes stored at the entries of the directed pair (u, v).
CodesAt(e, u, v) == {e[2][p][1] : p \in Positions(e[1], u, v)}

\* C13: in edge-feature mode both entries of an aromatic bond carry the code
\* 4 and both entries of a non-aromatic bond carry its bond order truncated
\* to an integer, which is 1, 2 or 3 for a single, double or triple bond, so
\* no aromatic bond shares its code with a non-aromatic one.
C13_BondCodes ==
    (mpc = "edges" /\ create_edge_attr) =>
        \A k \in 1..Len(mol.bonds) :
            LET b     == mol.bonds[k]
                codes == CodesAt(Val(edges), b.begin, b.end)
                           \cup CodesAt(Val(edges), b.end, b.begin)
            IN  /\ b.type2 = AROMATIC2 => codes = {4}
                /\ b.type2 # AROMATIC2 =>
                      /\ codes = {Truncated(b.type2)}
                      /\ codes \subseteq {1, 2, 3}
                /\ b.type2 = SINGLE2 => codes = {1}
                /\ b.type2 = DOUBLE2 => codes = {2}
                /\ b.type2 = TRIPLE2 => codes = {3}

\* The codes of a molecule with an aromatic and a single bond have been
\* emitted.
C13_Witness ==
    /\ mpc = "edges"
    /\ create_edge_attr
    /\ Len(mol.bonds) = 2
    /\ mol.bonds[1].type2 = AROMATIC2
    /\ mol.bonds[2].type2 = SINGLE2
    /\ {Val(edges)[2][p][1] : p \in 1..Len(Val(edges)[2])} = {1, 4}

\* The directed pairs of the bonds of a molecule.
DirectedPairs(m) ==
    UNION {{<<m.bonds[k].begin, m.bonds[k].end>>,
            <<m.bonds[k].end, m.bonds[k].begin>>} : k \in 1..Len(m.bonds)}

\* An edge list is in strictly ascending order of source index, then
\* destination index.
Ascending(ei) ==
    \A p \in 1..(Len(ei[1]) - 1) :
        \/ ei[1][p] < ei[1][p + 1]
        \/ (ei[1][p] = ei[1][p + 1] /\ ei[2][p] < ei[2][p + 1])

\* C15: for every molecule the edge list emitted in one mode equals, entry
\* for entry, the edge list the other mode emits for the same molecule, and
\* it holds the directed pairs of all bonds, each once, in ascending order of
\* source index, then destination index.
C15_SameEdgeList ==
    mpc = "edges" =>
        LET ei == Val(edges)[1]
        IN  /\ create_edge_attr => ei = EdgesFromAdjacency(mol)
            /\ ~create_edge_attr => \A w \in {EdgesWithAttr(mol)} : ei = w[1]
            /\ Len(ei) = 2
            /\ Len(ei[1]) = Len(ei[2])
            /\ {<<ei[1][p], ei[2][p]>> : p \in 1..Len(ei[1])} = DirectedPairs(mol)
            /\ Len(ei[1]) = 2 * Len(mol.bonds)
            /\ Ascending(ei)

\* The edge list of a molecule whose two bonds were iterated out of order
\* has been derived from the adjacency matrix.
C15_Witness ==
    /\ mpc = "edges"
    /\ ~create_edge_attr
    /\ Len(mol.bonds) = 2
    /\ mol.bonds[1].begin = 2
    /\ mol.bonds[1].end = 0
    /\ mol.bonds[2].begin = 1
    /\ mol.bonds[2].end = 0
    /\ Val(edges)[1] = <<<<0, 0, 1, 2>>, <<1, 2, 0, 0>>>>
    /\ \A w \in {EdgesWithAttr(mol)} : w[1] = Val(edges)[1] /\ Len(w[2]) = 4

\* Step f of the running construction is taken.
Runs(f) == calls'[f] = calls[f] + 1

\* C14: within a construction download() starts only with the raw file
\* missing and before process() and the load; process() starts only with
\* the cache file missing, the raw file in place (found, or just copied by
\* download()) and before the load; the cache file is written only inside
\* process(), once; the load reads the cache file as it then is, after the
\* write if there was one; no step is taken twice and none follows the load
\* before the next construction begins.
C14_StepOrder ==
    [][/\ Runs("download") =>
              /\ IsNone(rawFile) /\ IsNone(atStart.raw)
              /\ rawFile' = Some(csv)
              /\ calls = NoCalls
       /\ Runs("process") =>
              /\ IsNone(procFile) /\ IsNone(atStart.proc)
              /\ ~IsNone(rawFile)
              /\ calls.download = (IF IsNone(atStart.raw) THEN 1 ELSE 0)
              /\ calls.process = 0 /\ calls.write = 0 /\ calls.load = 0
       /\ Runs("write") =>
              /\ calls.process = 1
              /\ calls.write = 0 /\ calls.load = 0
              /\ ~IsNone(procFile')
       /\ Runs("load") =>
              /\ calls.load = 0
              /\ calls.process = (IF IsNone(atStart.proc) THEN 1 ELSE 0)
              /\ calls.write = calls.process
              /\ calls.download = (IF IsNone(atStart.raw) THEN 1 ELSE 0)
              /\ procFile' = procFile
              /\ self_data' = procFile
              /\ ~IsNone(procFile)
       /\ calls.load = 1 =>
              \/ calls' = calls
              \/ (nConstruct' = nConstruct + 1 /\ calls' = NoCalls)
       /\ (procFile' # procFile /\ ~IsNone(procFile')) => Runs("write")
       /\ (rawFile' # rawFile) => Runs("download")
       /\ \A f \in {"download", "process", "write", "load"} :
              calls'[f] # calls[f] => (Runs(f) /\ calls[f] = 0) \/ calls' = NoCalls
      ]_vars

\* A construction on a fresh root has taken all three steps: download(),
\* process() over two rows with its write, and the load.
C14_Witness ==
    /\ pc = "done"
    /\ IsNone(atStart.raw)
    /\ IsNone(atStart.proc)
    /\ calls = [download |-> 1, process |-> 1, read |-> 1, parse |-> 2,
                write |-> 1, load |-> 1]
    /\ self_data = procFile
    /\ rawFile = Some(csv)

=============================================================================
